---- MODULE Spec2Model ----
(***************************************************************************)
(* State-machine model of neuron/utils/neuron.py: the closed-form LIF      *)
(* tuning curve, the two bisection solvers, the fixed-step spiking and     *)
(* rate integrators, and the empirical evaluators built on them.           *)
(*                                                                         *)
(* Numbers.  The integrators are modelled in exact rational arithmetic:    *)
(* a number is a pair <<n, d>> with d > 0 in lowest terms.  exp and log    *)
(* are evaluated in fixed point with three decimals (FxExp, FxLn).         *)
(***************************************************************************)
EXTENDS Integers, Sequences, FiniteSets, TLC

(***************************************************************************)
(* Rational arithmetic                                                     *)
(***************************************************************************)
Abs(n) == IF n < 0 THEN -n ELSE n

RECURSIVE GCD(_, _)
GCD(a, b) == IF b = 0 THEN a ELSE GCD(b, a % b)

RNorm(n, d) ==
    LET g == GCD(Abs(n), Abs(d))
    IN  IF d < 0 THEN <<(-n) \div g, (-d) \div g>> ELSE <<n \div g, d \div g>>

R(n) == <<n, 1>>
Zero == <<0, 1>>
One == <<1, 1>>

\* Denominators are combined through their gcd and products are cancelled
\* crosswise first, which keeps the intermediate integers small.  A zero
\* denominator stands for an infinite value (a division by zero in numpy).
RAdd(a, b) ==
    IF a[2] = 0 \/ b[2] = 0 THEN RNorm(a[1] * b[2] + b[1] * a[2], 0)
    ELSE LET g == GCD(a[2], b[2])
         IN  RNorm(a[1] * (b[2] \div g) + b[1] * (a[2] \div g),
                   (a[2] \div g) * b[2])
RNeg(a) == <<-a[1], a[2]>>
RSub(a, b) == RAdd(a, RNeg(b))
RMul(a, b) ==
    IF a[2] = 0 \/ b[2] = 0 THEN RNorm(a[1] * b[1], 0)
    ELSE LET g1 == GCD(Abs(a[1]), b[2])
             g2 == GCD(Abs(b[1]), a[2])
         IN  RNorm((a[1] \div g1) * (b[1] \div g2),
                   (a[2] \div g2) * (b[2] \div g1))
RDiv(a, b) == RMul(a, IF b[1] < 0 THEN <<-b[2], -b[1]>> ELSE <<b[2], b[1]>>)
\* n1/d1 < n2/d2 for positive d1, d2, by whole parts and then by the
\* inverted remainders: no product is formed, so no intermediate value
\* leaves the integer range.
RECURSIVE FracLt(_, _, _, _)
FracLt(n1, d1, n2, d2) ==
    IF n1 \div d1 # n2 \div d2 THEN n1 \div d1 < n2 \div d2
    ELSE IF n2 % d2 = 0 THEN FALSE
    ELSE IF n1 % d1 = 0 THEN TRUE
    ELSE FracLt(d2, n2 % d2, d1, n1 % d1)
RLt(a, b) ==
    IF a[2] = 0 \/ b[2] = 0 THEN a[1] * b[2] < b[1] * a[2]
    ELSE FracLt(a[1], a[2], b[1], b[2])
RLe(a, b) == ~RLt(b, a)
RAbs(a) == <<Abs(a[1]), a[2]>>
\* A mutant of RClip: the upper bound is not applied.
RClip_NoUpper(x, lo, hi) == IF RLt(x, lo) THEN lo ELSE x
RClip(x, lo, hi) == IF RLt(x, lo) THEN lo ELSE IF RLt(hi, x) THEN hi ELSE x

\* The largest element of a non-empty set of numbers (np.max).
RMax(S) == CHOOSE m \in S : \A x \in S : RLe(x, m)

\* Floating-point rounding.  With grid = 0 the arithmetic is exact; otherwise
\* every stored value is rounded to the nearest multiple of 1/grid, as the
\* floating-point unit rounds to its precision.  Infinite values stay.
Q(grid, x) ==
    IF grid = 0 \/ x[2] = 0 THEN x
    ELSE RNorm((x[1] \div x[2]) * grid
                 + ((x[1] % x[2]) * grid + x[2] \div 2) \div x[2], grid)

(***************************************************************************)
(* Fixed-point transcendental functions (np.exp, np.expm1, np.log).        *)
(* A fixed-point number is an integer count of 1/FxS.  Results are         *)
(* correct to about two units in the last place on the ranges used.        *)
(***************************************************************************)
FxS == 1000

\* Nearest fixed-point number to the rational r.
FxOfR(r) ==
    (r[1] \div r[2]) * FxS + (2 * (r[1] % r[2]) * FxS + r[2]) \div (2 * r[2])
ROfFx(y) == RNorm(y, FxS)

\* e^k in fixed point for k = 0 .. 6.
ExpIntTab == <<1000, 2718, 7389, 20086, 54598, 148413, 403429>>
MaxExpArg == 7 * FxS

RECURSIVE ExpSeries(_, _, _, _)
\* Sum of the Taylor terms y^k/k! from term number k on, for 0 <= y < FxS.
ExpSeries(y, k, term, acc) ==
    IF term = 0 \/ k > 9 THEN acc
    ELSE ExpSeries(y, k + 1, (2 * term * y + k * FxS) \div (2 * k * FxS),
                   acc + term)

\* exp(y/FxS) for 0 <= y < MaxExpArg.
FxExpPos(y) ==
    LET k == y \div FxS
        frac == ExpSeries(y % FxS, 1, FxS, 0)
    IN  (ExpIntTab[k + 1] * frac + FxS \div 2) \div FxS

\* np.exp at the fixed-point argument y: underflows to 0 below -MaxExpArg.
FxExp(y) ==
    IF y >= 0 THEN FxExpPos(y)
    ELSE IF -y >= MaxExpArg THEN 0
    ELSE (2 * FxS * FxS + FxExpPos(-y)) \div (2 * FxExpPos(-y))

\* np.exp of a rational, as a rational.
RExp(r) == ROfFx(FxExp(FxOfR(r)))

FxLn2 == 693

RECURSIVE LnReduce(_, _)
\* <<m, k>> with r = m * 2^k and 1 <= m < 2, for a rational r > 0.
LnReduce(r, k) ==
    IF RLe(R(2), r) THEN LnReduce(RNorm(r[1], 2 * r[2]), k + 1)
    ELSE IF RLt(r, One) THEN LnReduce(RNorm(2 * r[1], r[2]), k - 1)
    ELSE <<r, k>>

\* np.log of a rational r > 0 in fixed point:
\* ln r = k ln 2 + 2 atanh((m-1)/(m+1)).
FxLn(r) ==
    LET mk == LnReduce(r, 0)
        m == mk[1]
        z == FxOfR(RDiv(RSub(m, One), RAdd(m, One)))
        z2 == (z * z) \div FxS
        z3 == (z * z2) \div FxS
        z5 == (z3 * z2) \div FxS
        z7 == (z5 * z2) \div FxS
    IN  mk[2] * FxLn2 + 2 * z + (2 * z3) \div 3 + (2 * z5) \div 5 + (2 * z7) \div 7

RLn(r) == ROfFx(FxLn(r))

(***************************************************************************)
(* Sequence helpers (numpy element-wise operations)                        *)
(***************************************************************************)
Zeros(n) == [k \in 1..n |-> Zero]

\* The value of a block of statements: the values are computed in the order
\* of the statements, and the block gives the last one.
Last(stmts) == stmts[Len(stmts)]

\* An array holds evaluated elements: the first n values of f, computed when
\* the array is made.
Array(n, f) == SubSeq(f, 1, n)

ZerosLike2(nrows, ncols) == [k \in 1..nrows |-> Zeros(ncols)]

(***************************************************************************)
(* State                                                                   *)
(***************************************************************************)
VARIABLES
    pc,               \* position of the integrator call
    fn,               \* the integrator called
    u_shape,          \* shape of the caller's input array object
    u_data,           \* its values, row by row
    u_shape0,         \* shape and values the caller passed
    u_data0,
    par,              \* dt, decay, tau, tref, xt, af, fdecay, f0
    nneurons,
    nsteps,
    i,                \* loop index of the integrator
    state,            \* soma state (run_ralifsoma: the rates f)
    fstate,           \* feedback state (run_ralifsoma: uf)
    refractory_time,
    spiketimes,
    last,             \* what the last step did, per neuron
    frame,            \* call frame of th_lif_fi or of a bisection solver
    sim,              \* call frame of sim_lif_fi or sim_alif_fi
    pool              \* the worker pool of sim_alif_fi

somaVars == <<pc, fn, u_shape, u_data, u_shape0, u_data0, par, nneurons, nsteps,
              i, state, fstate, refractory_time, spiketimes, last>>
fiVars == <<frame>>
simVars == <<sim, pool>>

(***************************************************************************)
(* Bounds of the model                                                     *)
(***************************************************************************)
NSteps == 5

\* Input levels, in units of the threshold.
InputLevels == {0, 2, 5}
\* <<dt, tref>> in a common time unit: tref is 0, dt, dt/2 and 3 dt/2.
TimePairs == {<<1, 0>>, <<1, 1>>, <<2, 1>>, <<2, 3>>}
\* Time constants as multiples of dt: exp(-25/36) rounds to 1/2.
TauMs == {<<36, 25>>}
TauFs == {<<36, 25>>}
Afs == {0, 1}

(***************************************************************************)
(* ClosedFormModel: th_lif_fi, th_lif_if                                   *)
(***************************************************************************)
\* Round to the fixed-point grid: the result of a floating-point evaluation
\* that went through np.log or np.exp.
RRound(r) == IF r[2] = 0 THEN r ELSE ROfFx(FxOfR(r))

\* One element of th_lif_fi (line 32), for u > xt and u > 0.
ThLifFiElem(u, tau, tref, xt) ==
    LET log == RLn(RSub(One, RDiv(xt, u)))
    IN  Last(<<log, RRound(RDiv(One, RSub(tref, RMul(tau, log))))>>)

\* th_lif_fi on an array: zeros, and the formula where u > xt.  No input is
\* rejected: the function has no raising path.
th_lif_fi(u, tau, tref, xt) ==
    [k \in 1..Len(u) |->
        IF RLt(xt, u[k]) THEN ThLifFiElem(u[k], tau, tref, xt) ELSE Zero]

\* One element of th_lif_if (line 84), for f > 0.
ThLifIfElem(f, tau, tref, xt) ==
    LET exp == RExp(RDiv(RSub(tref, RDiv(One, f)), tau))
    IN  Last(<<exp, RRound(RDiv(xt, RSub(One, exp)))>>)

\* decay = np.exp(-dt/tau) (line 461) and np.expm1(-dt/tau)+1 (lines 542,
\* 545, 633).
Decay(dt, tau) == RExp(RSub(Zero, RDiv(dt, tau)))

\* np.expm1(-dt/tau)+1 as floating point computes it (lines 542, 545): the
\* result of np.expm1 is rounded and the sum is rounded again, so the value
\* is np.exp(-dt/tau) or one unit in the last place beside it, whichever the
\* math library of the build gives.
Expm1Plus1(dt, tau) ==
    {RAdd(Decay(dt, tau), <<e, FxS>>) : e \in {-1, 0, 1}}

(***************************************************************************)
(* SpikingIntegrator: one step of one neuron                               *)
(***************************************************************************)
\* A mutant of SpikeTime: the step's own start time is left out.
SpikeTime_NoStepOffset(p, interp_spiketime, ti) == interp_spiketime

\* A mutant of SpikeTime: the start of the step is recorded, without the
\* interpolated crossing time.
SpikeTime_StepStart(p, interp_spiketime, ti) == RMul(R(ti), p.dt)

\* The spike time appended to the record (lines 489 and 586).
SpikeTime(p, interp_spiketime, ti) ==
    RAdd(interp_spiketime, RMul(R(ti), p.dt))

\* Mutants of RefractoryReset: the sub-step correction is left out, or it is
\* the time elapsed after the crossing.
RefractoryReset_TrefOnly(p, interp_spiketime) == p.tref
RefractoryReset_Elapsed(p, interp_spiketime) ==
    RAdd(p.tref, RSub(p.dt, interp_spiketime))

\* The refractory time of a neuron that spiked (lines 493 and 578).
RefractoryReset(p, interp_spiketime) == RAdd(p.tref, interp_spiketime)

\* run_lifsoma, lines 470-493, for one neuron; ti is the step index.
LifNeuronStep(p, Vold, r, ui, ti) ==
    LET Vu == Q(p.grid, RAdd(RMul(p.decay, Vold), RMul(RSub(One, p.decay), ui)))
        dV == RSub(Vu, Vold)
        r1 == RSub(r, p.dt)
        Vg == Q(p.grid, RMul(Vu, RClip(RSub(One, RDiv(r1, p.dt)), Zero, One)))
        spiked == RLt(p.xt, Vg)
        overshoot == Q(p.grid, RDiv(RSub(Vg, p.xt), dV))
        interp_spiketime == Q(p.grid, RMul(p.dt, RSub(One, overshoot)))
    IN  [dV |-> dV,
         Vnew |-> Vg,
         spiked |-> spiked,
         overshoot |-> IF spiked THEN overshoot ELSE Zero,
         V |-> IF spiked THEN Zero ELSE Vg,
         f |-> Zero,
         r |-> IF spiked THEN RefractoryReset(p, interp_spiketime) ELSE r1,
         spk_t |-> IF spiked THEN SpikeTime(p, interp_spiketime, ti) ELSE Zero]

\* run_alifsoma, lines 555-586, for one neuron.
AlifNeuronStep(p, Vold, fold, r, ui, ti) ==
    LET f1 == Q(p.grid, RMul(p.fdecay, fold))
        Vu == Q(p.grid, RAdd(RMul(p.decay, Vold),
                             RMul(RSub(One, p.decay), RSub(ui, RMul(p.af, f1)))))
        dV == RSub(Vu, Vold)
        r1 == RSub(r, p.dt)
        Vg == Q(p.grid, RMul(Vu, RClip(RSub(One, RDiv(r1, p.dt)), Zero, One)))
        spiked == RLt(p.xt, Vg)
        overshoot == Q(p.grid, RDiv(RSub(Vg, p.xt), dV))
        interp_spiketime == Q(p.grid, RMul(p.dt, RSub(One, overshoot)))
    IN  [dV |-> dV,
         Vnew |-> Vg,
         spiked |-> spiked,
         overshoot |-> IF spiked THEN overshoot ELSE Zero,
         V |-> IF spiked THEN Zero ELSE Vg,
         f |-> IF spiked
               THEN Q(p.grid, RAdd(f1, RDiv(RSub(One, p.fdecay), p.dt)))
               ELSE f1,
         r |-> IF spiked THEN RefractoryReset(p, interp_spiketime) ELSE r1,
         spk_t |-> IF spiked THEN SpikeTime(p, interp_spiketime, ti) ELSE Zero]

\* run_ralifsoma, lines 641-642, for one neuron.  The rates come out of
\* np.log, so this integrator's values are kept on the fixed-point grid.
RalifNeuronStep(p, fprev, ufprev, ui) ==
    LET uf == RRound(RAdd(RMul(p.fdecay, ufprev),
                          RMul(RMul(RSub(One, p.fdecay), p.af), fprev)))
    IN  [uf |-> uf, f |-> th_lif_fi(<<RSub(ui, uf)>>, p.tau, p.tref, p.xt)[1]]

(***************************************************************************)
(* The integrators as a state machine: call, loop, return                  *)
(***************************************************************************)
Integrators == {"run_lifsoma", "run_alifsoma", "run_ralifsoma"}
F0s == {Zero, <<1, 4>>}

\* grid is the rounding of the arithmetic (see Q): 0 is exact.
MkPar(dt, tr, tm, a, tf, f0, grid) ==
    [dt |-> R(dt), tau |-> RMul(tm, R(dt)), tref |-> R(tr), xt |-> One,
     af |-> R(a), tauf |-> RMul(tf, R(dt)), f0 |-> f0, grid |-> grid,
     decay |-> Decay(R(dt), RMul(tm, R(dt))),
     fdecay |-> Decay(R(dt), RMul(tf, R(dt)))]

\* Parameters of a call: run_lifsoma has no feedback, and with af = 0 the
\* feedback time constant has no effect.
Pars(f) ==
    IF f = "run_lifsoma"
    THEN {MkPar(tp[1], tp[2], tm, 0, <<36, 25>>, Zero, 0) :
            tp \in TimePairs, tm \in TauMs}
    ELSE IF f = "run_alifsoma"
    THEN {MkPar(tp[1], tp[2], tm, 0, <<36, 25>>, Zero, 0) :
            tp \in TimePairs, tm \in TauMs}
         \cup {MkPar(tp[1], tp[2], tm, a, tf, Zero, 0) :
                 tp \in TimePairs, tm \in TauMs, a \in Afs \ {0},
                 tf \in TauFs}
    ELSE {MkPar(1, 1, tm, 1, <<13, 18>>, f0, 0) : tm \in TauMs, f0 \in F0s}

\* Arrays a caller may pass: a 1-D array of any levels, or a 2-D array with
\* one or two columns, each neuron's input held constant.
ConstRows(n, levels) == [k \in 1..n |-> [j \in 1..Len(levels) |-> R(levels[j])]]
CallerArrays ==
    {[shape |-> <<NSteps>>, data |-> [k \in 1..NSteps |-> <<R(lv[k])>>]] :
        lv \in [1..NSteps -> InputLevels]}
    \cup {[shape |-> <<NSteps, 1>>, data |-> ConstRows(NSteps, <<a>>)] :
            a \in InputLevels}
    \cup {[shape |-> <<NSteps, 2>>, data |-> ConstRows(NSteps, <<a, b>>)] :
            a \in InputLevels, b \in InputLevels}

NoStep == [V |-> Zero, f |-> Zero, r |-> Zero, spiked |-> FALSE, dV |-> Zero,
           Vnew |-> Zero, overshoot |-> Zero, spk_t |-> Zero]

SomaInit ==
    /\ pc = "call"
    /\ fn \in Integrators
    /\ \E a \in CallerArrays :
        /\ u_shape = a.shape /\ u_shape0 = a.shape
        /\ u_data = a.data /\ u_data0 = a.data
    /\ par \in Pars(fn)
    /\ nneurons = 0 /\ nsteps = 0 /\ i = 0
    /\ state = <<>> /\ fstate = <<>>
    /\ refractory_time = <<>> /\ spiketimes = <<>>
    /\ last = <<>>

\* Lines 454-466, 535-551 and 626-639: the shape of a single-neuron input is
\* assigned in place, then the state arrays are allocated.
Prologue ==
    /\ pc = "call"
    /\ LET nn == IF Len(u_shape) > 1 THEN u_shape[2] ELSE 1
           ns == u_shape[1]
           f0row == [j \in 1..nn |-> par.f0]
           uf0row == [j \in 1..nn |->
                        IF RLt(Zero, par.f0)
                        THEN RSub(u_data[1][j],
                                  ThLifIfElem(par.f0, par.tau, par.tref, par.xt))
                        ELSE Zero]
       IN  /\ nneurons' = nn
           /\ nsteps' = ns
           /\ u_shape' = IF nn = 1 THEN <<u_shape[1], 1>> ELSE u_shape
           /\ state' = IF fn = "run_ralifsoma"
                       THEN [ZerosLike2(ns, nn) EXCEPT ![1] = f0row]
                       ELSE ZerosLike2(ns, nn)
           /\ fstate' = IF fn = "run_ralifsoma"
                        THEN [ZerosLike2(ns, nn) EXCEPT ![1] = uf0row]
                        ELSE ZerosLike2(ns, nn)
           /\ refractory_time' = Zeros(nn)
           /\ spiketimes' = [j \in 1..nn |-> <<>>]
           /\ last' = [j \in 1..nn |-> NoStep]
    /\ i' = 1
    /\ pc' = "loop"
    /\ UNCHANGED <<fn, u_data, u_shape0, u_data0, par, fiVars, simVars>>

\* One iteration of the loop of run_lifsoma (lines 468-493), all neurons.
run_lifsoma_step ==
    /\ pc = "loop" /\ fn = "run_lifsoma" /\ i < nsteps
    /\ LET res == [j \in 1..nneurons |->
                     LifNeuronStep(par, state[i][j], refractory_time[j],
                                   u_data[i + 1][j], i)]
       IN  /\ state' = [state EXCEPT ![i + 1] = [j \in 1..nneurons |-> res[j].V]]
           /\ refractory_time' = [j \in 1..nneurons |-> res[j].r]
           /\ spiketimes' = [j \in 1..nneurons |->
                               IF res[j].spiked
                               THEN Append(spiketimes[j], res[j].spk_t)
                               ELSE spiketimes[j]]
           /\ last' = res
    /\ i' = i + 1
    /\ UNCHANGED <<pc, fn, u_shape, u_data, u_shape0, u_data0, par, nneurons,
                   nsteps, fstate, fiVars, simVars>>

\* One iteration of the loop of run_alifsoma (lines 553-586), all neurons.
run_alifsoma_step ==
    /\ pc = "loop" /\ fn = "run_alifsoma" /\ i < nsteps
    /\ LET res == [j \in 1..nneurons |->
                     AlifNeuronStep(par, state[i][j], fstate[i][j],
                                    refractory_time[j], u_data[i + 1][j], i)]
       IN  /\ state' = [state EXCEPT ![i + 1] = [j \in 1..nneurons |-> res[j].V]]
           /\ fstate' = [fstate EXCEPT ![i + 1] = [j \in 1..nneurons |-> res[j].f]]
           /\ refractory_time' = [j \in 1..nneurons |-> res[j].r]
           /\ spiketimes' = [j \in 1..nneurons |->
                               IF res[j].spiked
                               THEN Append(spiketimes[j], res[j].spk_t)
                               ELSE spiketimes[j]]
           /\ last' = res
    /\ i' = i + 1
    /\ UNCHANGED <<pc, fn, u_shape, u_data, u_shape0, u_data0, par, nneurons,
                   nsteps, fiVars, simVars>>

\* One iteration of the loop of run_ralifsoma (lines 640-642), all neurons.
run_ralifsoma_step ==
    /\ pc = "loop" /\ fn = "run_ralifsoma" /\ i < nsteps
    /\ LET res == [j \in 1..nneurons |->
                     RalifNeuronStep(par, state[i][j], fstate[i][j],
                                     u_data[i + 1][j])]
       IN  /\ state' = [state EXCEPT ![i + 1] = [j \in 1..nneurons |-> res[j].f]]
           /\ fstate' = [fstate EXCEPT ![i + 1] = [j \in 1..nneurons |-> res[j].uf]]
    /\ i' = i + 1
    /\ UNCHANGED <<pc, fn, u_shape, u_data, u_shape0, u_data0, par, nneurons,
                   nsteps, refractory_time, spiketimes, last, fiVars, simVars>>

\* The loop is over: the integrator returns to its caller.
Return ==
    /\ pc = "loop" /\ i >= nsteps
    /\ pc' = "done"
    /\ UNCHANGED <<fn, u_shape, u_data, u_shape0, u_data0, par, nneurons, nsteps,
                   i, state, fstate, refractory_time, spiketimes, last,
                   fiVars, simVars>>

SomaNext ==
    \/ Prologue
    \/ run_lifsoma_step
    \/ run_alifsoma_step
    \/ run_ralifsoma_step
    \/ Return

(***************************************************************************)
(* FixedPointSolver: _alif_u_tspk, num_alif_fi, num_alif_fi_mu_apx         *)
(***************************************************************************)
\* Python's None, and a local name that is not bound yet.
NoneVal == <<>>

\* _alif_u_tspk (lines 107-117): the input that gives the time tspk from the
\* end of the refractory period to the next spike.
AlifUTspk(tspk, taum, tref, xt, af, tauf) ==
    LET em == RExp(RNeg(RDiv(tspk, taum)))
        et == RExp(RNeg(RDiv(RAdd(tref, tspk), tauf)))
        t0 == RDiv(One, RSub(One, em))
        t1 == IF taum # tauf
              THEN RRound(RMul(RMul(af, RExp(RNeg(RDiv(tref, tauf)))),
                               RSub(RExp(RNeg(RDiv(tspk, tauf))), em)))
              ELSE RRound(RNeg(RMul(RMul(af, tspk), et)))
        t2 == IF taum # tauf
              THEN RRound(RMul(RSub(One, et), RSub(taum, tauf)))
              ELSE RRound(RMul(RMul(taum, taum), RSub(One, et)))
    IN  Last(<<em, et, t0, t1, t2,
               RRound(RMul(t0, RSub(xt, RRound(RDiv(t1, t2)))))>>)

\* No call of a solver is in progress.
NoFrame == [pc |-> "none"]

\* The frame of a call that has not started.
NewFrame(fname, a) ==
    [fn |-> fname, pc |-> "call", arg |-> a, af |-> a.af, f_ret |-> <<>>,
     idx |-> <<>>, tspk_high |-> <<>>, tspk_low |-> <<>>, tspk |-> NoneVal,
     f_high |-> <<>>, f_low |-> <<>>, f |-> NoneVal, i |-> 0,
     broke |-> FALSE, at_exit |-> FALSE, exit_msg |-> "", exc |-> "none",
     printed |-> <<>>]

Raise(fr, e) == [fr EXCEPT !.pc = "raised", !.exc = e]

\* A mutant of Mid: the bracket is cut at a third.
Mid_Third(grid, hi, lo) == Q(grid, RDiv(RAdd(hi, RMul(R(2), lo)), R(3)))

\* The midpoint of a bracket (lines 175 and 303).
Mid(grid, hi, lo) == Q(grid, RDiv(RAdd(hi, lo), R(2)))

\* th_lif_fi as a call (lines 10-33): it returns for every input.
ThLifFiCall(fr) ==
    [fr EXCEPT !.pc = "returned",
               !.f_ret = th_lif_fi(fr.arg.u, fr.arg.taum, fr.arg.tref, fr.arg.xt)]

\* num_alif_fi up to the loop (lines 154-172).  Array elements stay at the
\* position of their input; positions outside idx are not used.
NumAlifFiEnter(fr) ==
    LET a == fr.arg
        n == Len(a.u)
        f_high == IF a.max_f = NoneVal THEN RDiv(One, a.tref) ELSE a.max_f
        tspk_high == RSub(RDiv(One, a.min_f), a.tref)
        tspk_low == RSub(RDiv(One, f_high), a.tref)
        u_min == AlifUTspk(tspk_high, a.taum, a.tref, a.xt, a.af, a.tauf)
        idx == Array(n, [k \in 1..n |-> RLt(u_min, a.u[k])])
    IN  IF a.max_f = NoneVal /\ a.tref = Zero
        THEN Raise(fr, "ZeroDivisionError")
        ELSE IF \A k \in 1..n : ~idx[k]
        THEN [fr EXCEPT !.pc = "returned", !.f_ret = Zeros(n), !.idx = idx]
        ELSE [fr EXCEPT !.pc = "loop", !.f_ret = Zeros(n), !.idx = idx,
                        !.tspk_high = Array(n, [k \in 1..n |-> tspk_high]),
                        !.tspk_low = Array(n, [k \in 1..n |-> tspk_low]),
                        !.exit_msg = "reached max iterations"]

\* One pass of the loop of num_alif_fi (lines 173-184).  The assertion of
\* line 174 compares tspk_low with itself and cannot fail.
NumAlifFiIter(fr) ==
    LET a == fr.arg
        n == Len(a.u)
        sel == {k \in 1..n : fr.idx[k]}
        tspk == Array(n, [k \in 1..n |->
                   IF fr.idx[k] THEN Mid(a.grid, fr.tspk_high[k], fr.tspk_low[k])
                   ELSE Zero])
        uhat == Array(n, [k \in 1..n |->
                   IF fr.idx[k]
                   THEN AlifUTspk(tspk[k], a.taum, a.tref, a.xt, a.af, a.tauf)
                   ELSE Zero])
        max_diff == RMax({RAbs(RSub(a.u[k], uhat[k])) : k \in sel})
    IN  Last(<<tspk, uhat, max_diff,
               IF RLt(max_diff, a.tol)
               THEN [fr EXCEPT !.tspk = tspk, !.broke = TRUE, !.i = @ + 1,
                               !.exit_msg = "reached tolerance in " \o
                                   ToString(fr.i + 1) \o " iterations"]
               ELSE [fr EXCEPT !.tspk = tspk, !.i = @ + 1,
                               !.tspk_high = Array(n, [k \in 1..n |->
                                   IF fr.idx[k] /\ RLe(uhat[k], a.u[k])
                                   THEN tspk[k] ELSE @[k]]),
                               !.tspk_low = Array(n, [k \in 1..n |->
                                   IF fr.idx[k] /\ RLt(a.u[k], uhat[k])
                                   THEN tspk[k] ELSE @[k]])]>>)

\* The loop from the frame fr on, nx being the frame one pass later.  A pass
\* that neither breaks nor moves the bracket computes what the pass before
\* it did, and so does every pass after it: the loop runs to max_iter
\* without another change.
NumAlifFiSettle(fr, nx) ==
    IF ~nx.broke /\ nx.tspk_high = fr.tspk_high /\ nx.tspk_low = fr.tspk_low
    THEN [nx EXCEPT !.i = fr.arg.max_iter]
    ELSE nx

\* After the loop of num_alif_fi (lines 185-188).
NumAlifFiExit(fr) ==
    LET a == fr.arg
        out == [fr EXCEPT !.at_exit = TRUE]
    IN  IF fr.tspk = NoneVal
        THEN Raise(out, "UnboundLocalError")
        ELSE [out EXCEPT !.pc = "returned",
                         !.f_ret = Array(Len(a.u), [k \in 1..Len(a.u) |->
                            IF fr.idx[k]
                            THEN RRound(RDiv(One, RAdd(a.tref, fr.tspk[k])))
                            ELSE Zero]),
                         !.printed = IF a.verbose THEN <<fr.exit_msg>> ELSE <<>>]

\* num_alif_fi_mu_apx up to the loop (lines 296-306).  There is no return
\* before the loop.
MuApxEnter(fr) ==
    LET a == fr.arg
        n == Len(a.u)
        af == IF a.spiking
              THEN RRound(RMul(a.af, RExp(RNeg(RDiv(a.tref, a.tauf)))))
              ELSE a.af
        f_high == th_lif_fi(a.u, a.taum, a.tref, a.xt)
    IN  IF ~RLt(Zero, a.af)
        THEN Raise(fr, "AssertionError")
        ELSE [fr EXCEPT !.pc = "loop", !.af = af, !.f_ret = Zeros(n),
                        !.idx = Array(n, [k \in 1..n |-> RLt(Zero, f_high[k])]),
                        !.f_high = f_high, !.f_low = Zeros(n),
                        !.exit_msg = "reached max iterations"]

\* One pass of the loop of num_alif_fi_mu_apx (lines 302-316): the bracket
\* is updated before the tolerance is tested, and np.max of an empty array
\* raises ValueError.
MuApxIter(fr) ==
    LET a == fr.arg
        n == Len(a.u)
        sel == {k \in 1..n : fr.idx[k]}
        f == Array(n, [k \in 1..n |->
                IF fr.idx[k] THEN Mid(a.grid, fr.f_high[k], fr.f_low[k])
                ELSE Zero])
        uhat == Array(n, [k \in 1..n |->
                   IF fr.idx[k]
                   THEN RAdd(ThLifIfElem(f[k], a.taum, a.tref, a.xt),
                             RMul(f[k], fr.af))
                   ELSE Zero])
        upd == [fr EXCEPT !.f = f, !.i = @ + 1,
                          !.f_high = Array(n, [k \in 1..n |->
                              IF fr.idx[k] /\ RLt(a.u[k], uhat[k])
                              THEN f[k] ELSE @[k]]),
                          !.f_low = Array(n, [k \in 1..n |->
                              IF fr.idx[k] /\ RLe(uhat[k], a.u[k])
                              THEN f[k] ELSE @[k]])]
        max_rel_diff ==
            RMax({RDiv(RAbs(RSub(uhat[k], a.u[k])), a.u[k]) : k \in sel})
    IN  Last(<<f,
               IF \E k \in sel : ~RLt(Zero, f[k])
               THEN Raise([fr EXCEPT !.f = f, !.i = @ + 1], "AssertionError")
               ELSE IF sel = {}
               THEN Raise(upd, "ValueError")
               ELSE Last(<<uhat, upd, max_rel_diff,
                           IF RLt(max_rel_diff, a.tol)
                           THEN [upd EXCEPT !.broke = TRUE,
                                            !.exit_msg = "reached tolerance"]
                           ELSE upd>>)>>)

\* After the loop of num_alif_fi_mu_apx (lines 317-319).
MuApxExit(fr) ==
    LET a == fr.arg
        out == [fr EXCEPT !.at_exit = TRUE]
    IN  IF fr.f = NoneVal
        THEN Raise(out, "UnboundLocalError")
        ELSE [out EXCEPT !.pc = "returned",
                         !.f_ret = Array(Len(a.u), [k \in 1..Len(a.u) |->
                            IF fr.idx[k] THEN fr.f[k] ELSE Zero]),
                         !.printed = IF a.verbose THEN <<fr.exit_msg>> ELSE <<>>]

(***************************************************************************)
(* The solvers as a state machine: call, loop passes, exit                 *)
(***************************************************************************)
MaxIter == 3

\* Input levels of a batch, in units of the threshold, and the batches.
FiLevels == {<<1, 2>>, One, R(2), R(3)}
Batches == {<<a>> : a \in FiLevels} \cup {<<a, b>> : a \in FiLevels, b \in FiLevels}

FiArg(u, taum, tref, xt, af, tauf, min_f, max_f, max_iter, tol, spiking, verbose) ==
    [u |-> u, taum |-> taum, tref |-> tref, xt |-> xt, af |-> af,
     tauf |-> tauf, min_f |-> min_f, max_f |-> max_f, max_iter |-> max_iter,
     tol |-> tol, spiking |-> spiking, verbose |-> verbose, grid |-> 0]

Trefs == {Zero, <<1, 2>>}
Tols == {<<1, 1000>>, <<1, 4>>}

\* Calls of th_lif_fi with any sign of tau and xt; calls of the solvers with
\* tau > 0 and xt > 0.
FiCalls ==
    {NewFrame("th_lif_fi",
              FiArg(u, R(tau), tref, R(xt), Zero, One, One, NoneVal, 0,
                    One, FALSE, FALSE)) :
        u \in Batches, tau \in {-1, 0, 1}, tref \in Trefs, xt \in {-1, 0, 1}}
    \cup
    {NewFrame("num_alif_fi",
              FiArg(u, One, tref, One, <<1, 2>>, tauf, <<1, 8>>, max_f, mi,
                    tol, TRUE, vb)) :
        u \in Batches, tref \in Trefs, tauf \in {One, R(2)},
        max_f \in {NoneVal, One}, mi \in 0..MaxIter, tol \in Tols,
        vb \in BOOLEAN}
    \cup
    {NewFrame("num_alif_fi_mu_apx",
              FiArg(u, One, tref, One, af, One, One, NoneVal, mi, tol, sp, vb)) :
        u \in Batches, tref \in Trefs, af \in {Zero, <<1, 2>>},
        mi \in 0..MaxIter, tol \in Tols, sp \in BOOLEAN, vb \in BOOLEAN}

FiInit == frame \in FiCalls

th_lif_fi_call ==
    /\ frame.pc = "call" /\ frame.fn = "th_lif_fi"
    /\ frame' = ThLifFiCall(frame)
    /\ UNCHANGED <<somaVars, simVars>>

num_alif_fi_enter ==
    /\ frame.pc = "call" /\ frame.fn = "num_alif_fi"
    /\ frame' = NumAlifFiEnter(frame)
    /\ UNCHANGED <<somaVars, simVars>>

num_alif_fi_iter ==
    /\ frame.pc = "loop" /\ frame.fn = "num_alif_fi"
    /\ ~frame.broke /\ frame.i < frame.arg.max_iter
    /\ frame' = NumAlifFiSettle(frame, NumAlifFiIter(frame))
    /\ UNCHANGED <<somaVars, simVars>>

num_alif_fi_exit ==
    /\ frame.pc = "loop" /\ frame.fn = "num_alif_fi"
    /\ frame.broke \/ frame.i >= frame.arg.max_iter
    /\ frame' = NumAlifFiExit(frame)
    /\ UNCHANGED <<somaVars, simVars>>

num_alif_fi_mu_apx_enter ==
    /\ frame.pc = "call" /\ frame.fn = "num_alif_fi_mu_apx"
    /\ frame' = MuApxEnter(frame)
    /\ UNCHANGED <<somaVars, simVars>>

num_alif_fi_mu_apx_iter ==
    /\ frame.pc = "loop" /\ frame.fn = "num_alif_fi_mu_apx"
    /\ ~frame.broke /\ frame.i < frame.arg.max_iter
    /\ frame' = MuApxIter(frame)
    /\ UNCHANGED <<somaVars, simVars>>

num_alif_fi_mu_apx_exit ==
    /\ frame.pc = "loop" /\ frame.fn = "num_alif_fi_mu_apx"
    /\ frame.broke \/ frame.i >= frame.arg.max_iter
    /\ frame' = MuApxExit(frame)
    /\ UNCHANGED <<somaVars, simVars>>

FiNext ==
    \/ th_lif_fi_call
    \/ num_alif_fi_enter
    \/ num_alif_fi_iter
    \/ num_alif_fi_exit
    \/ num_alif_fi_mu_apx_enter
    \/ num_alif_fi_mu_apx_iter
    \/ num_alif_fi_mu_apx_exit

(***************************************************************************)
(* EmpiricalEvaluator: sim_lif_fi, the adaptive worker, sim_alif_fi        *)
(***************************************************************************)
RCeil(r) == -((-r[1]) \div r[2])

\* Defaults of num_alif_fi (lines 120-121).
DefaultMinF == <<1, 1000>>
DefaultMaxIter == 100
DefaultTol == <<1, 1000>>

\* np.diff(spike_times[-3:]) (lines 359 and 383).
LastIsi(spike_times) ==
    LET n == Len(spike_times)
        t == SubSeq(spike_times, IF n > 3 THEN n - 2 ELSE 1, n)
    IN  [k \in 1..(Len(t) - 1) |-> RSub(t[k + 1], t[k])]

\* (isi[-2]-isi[-1])/isi[-2], for an isi of two elements.
RelChange(isi) == RDiv(RSub(isi[1], isi[2]), isi[1])

Percent == <<1, 100>>

\* What the evaluation of one input level ends in.
Outcome(exc, value, isi, warned) ==
    [exc |-> exc, value |-> value, isi |-> isi, warned |-> warned]

\* The check of the last two intervals and the rate, shared shape of lines
\* 359-365 and 383-387; raising says whether a failed check is an assert.
CheckIsi(p, isi, raising) ==
    IF Len(isi) < 2 THEN Outcome("IndexError", NoneVal, NoneVal, FALSE)
    ELSE IF raising
    THEN IF RLt(RelChange(isi), Percent)
         THEN Outcome("none", Q(p.grid, RDiv(One, isi[2])), isi, FALSE)
         ELSE Outcome("AssertionError", NoneVal, isi, FALSE)
    ELSE Outcome("none", Q(p.grid, RDiv(One, isi[2])), isi,
                 RLt(Percent, RelChange(isi)))

SteadyCheck(p, spike_times, raising) ==
    CheckIsi(p, LastIsi(spike_times), raising)

\* The number of samples of the constant input (lines 357-358, 380-381).
NumSamples(run_time, dt) == RCeil(RDiv(run_time, dt))

\* The worker's call of num_alif_fi (lines 373-374): the defaults of
\* num_alif_fi apply to what the worker does not pass.
SimAlifWorkerArg(p, u_val) ==
    [u |-> <<u_val>>, taum |-> p.tau, tref |-> p.tref, xt |-> p.xt,
     af |-> p.af, tauf |-> p.tauf, min_f |-> DefaultMinF,
     max_f |-> NoneVal, max_iter |-> DefaultMaxIter,
     tol |-> DefaultTol, spiking |-> TRUE, verbose |-> FALSE,
     grid |-> p.grid]

(***************************************************************************)
(* The evaluators as a state machine.  sim is the frame of the call in the *)
(* calling process; the solver and the integrator it calls run on frame    *)
(* and on the integrator's variables.  pool is the multiprocessing.Pool of *)
(* sim_alif_fi, whose map hands the tasks out in order, stores each result *)
(* at the index of its task and returns when no task is left, or raises    *)
(* once a task has failed.                                                 *)
(***************************************************************************)
MaxProcs == {NoneVal, <<0>>, <<1>>, <<2>>}
\* Input levels of a batch: one below the threshold, the others above it.
SimLevels == {<<1, 2>>, R(2), R(3), R(5)}
SimBatches ==
    {<<a>> : a \in SimLevels}
    \cup {<<a, b>> : a \in SimLevels, b \in SimLevels}
    \cup {t \in {<<a, b, c>> : a \in SimLevels, b \in SimLevels,
                                c \in SimLevels} :
            t[1] # t[2] /\ t[2] # t[3] /\ t[1] # t[3]}

\* The evaluators round as floating point does (see Q).
SimPars(f) ==
    IF f = "sim_lif_fi"
    THEN {MkPar(tp[1], tp[2], tm, 0, <<36, 25>>, Zero, FxS) :
            tp \in TimePairs, tm \in TauMs}
    ELSE {MkPar(tp[1], tp[2], tm, 1, <<13, 18>>, Zero, FxS) :
            tp \in {<<1, 1>>, <<2, 1>>}, tm \in TauMs}

NoPool == [created |-> FALSE, closed |-> FALSE, procs |-> {},
           running |-> <<>>, taskq |-> <<>>, value |-> <<>>,
           number_left |-> 0, failed |-> "none", done_order |-> <<>>]

SimCalls ==
    {[fn |-> "sim_lif_fi", pc |-> "call", p |-> p, u |-> u,
      max_proc |-> NoneVal, th_f |-> <<>>, idx |-> 0, sim_f |-> <<>>,
      isi |-> [k \in 1..Len(u) |-> NoneVal], warned |-> {}, asserted |-> {},
      exc |-> "none", args |-> <<>>] :
        p \in SimPars("sim_lif_fi"), u \in SimBatches}
    \cup
    {[fn |-> "sim_alif_fi", pc |-> "call", p |-> p, u |-> u,
      max_proc |-> mp, th_f |-> <<>>, idx |-> 0, sim_f |-> <<>>,
      isi |-> [k \in 1..Len(u) |-> NoneVal], warned |-> {}, asserted |-> {},
      exc |-> "none", args |-> <<>>] :
        p \in SimPars("sim_alif_fi"), u \in SimBatches, mp \in MaxProcs}

SimInit == sim \in SimCalls /\ pool = NoPool

\* What an evaluated level leaves in the frame: the intervals seen and
\* whether the check warned or asserted.
Observe(s, k, o) ==
    [s EXCEPT !.isi[k] = o.isi,
              !.warned = IF o.warned THEN @ \cup {k} ELSE @,
              !.asserted = IF o.exc = "AssertionError" THEN @ \cup {k} ELSE @]

\* An integrator is called on n samples of the constant input u_val (lines
\* 358 and 381): a 1-D array.
SomaCall(f, p, n, u_val) ==
    /\ pc' = "call" /\ fn' = f /\ par' = p
    /\ u_shape' = <<n>> /\ u_shape0' = <<n>>
    /\ u_data' = [k \in 1..n |-> <<u_val>>]
    /\ u_data0' = [k \in 1..n |-> <<u_val>>]
    /\ nneurons' = 0 /\ nsteps' = 0 /\ i' = 0
    /\ state' = <<>> /\ fstate' = <<>>
    /\ refractory_time' = <<>> /\ spiketimes' = <<>> /\ last' = <<>>

\* The integrator's result has been taken; its frame is gone.
SomaRelease ==
    /\ pc' = "idle" /\ fn' = "none" /\ par' = <<>>
    /\ u_shape' = <<>> /\ u_shape0' = <<>>
    /\ u_data' = <<>> /\ u_data0' = <<>>
    /\ nneurons' = 0 /\ nsteps' = 0 /\ i' = 0
    /\ state' = <<>> /\ fstate' = <<>>
    /\ refractory_time' = <<>> /\ spiketimes' = <<>> /\ last' = <<>>

\* sim_lif_fi, lines 350-352.
sim_lif_fi_enter ==
    /\ sim.pc = "call" /\ sim.fn = "sim_lif_fi"
    /\ sim' = [sim EXCEPT !.pc = "loop", !.idx = 1,
                 !.th_f = th_lif_fi(sim.u, sim.p.tau, sim.p.tref, sim.p.xt),
                 !.sim_f = Zeros(Len(sim.u))]
    /\ UNCHANGED <<pool, somaVars, fiVars>>

\* The end of a pass of sim_lif_fi: an exception leaves the function, a
\* rate is stored at its index (line 365).
SimLifStore(s, k, o) ==
    IF o.exc # "none"
    THEN [Observe(s, k, o) EXCEPT !.pc = "raised", !.exc = o.exc]
    ELSE [Observe(s, k, o) EXCEPT !.sim_f[k] = o.value, !.idx = k + 1]

\* A pass of the loop of sim_lif_fi up to the call of run_lifsoma (lines
\* 353-358); a level whose theoretical rate is below .01 is skipped.
sim_lif_fi_run ==
    /\ sim.pc = "loop" /\ sim.fn = "sim_lif_fi" /\ sim.idx <= Len(sim.u)
    /\ pc = "idle"
    /\ IF RLt(sim.th_f[sim.idx], Percent)
       THEN /\ sim' = [sim EXCEPT !.idx = @ + 1]
            /\ UNCHANGED somaVars
       ELSE /\ SomaCall("run_lifsoma", sim.p,
                        NumSamples(RMul(R(5), RDiv(One, sim.th_f[sim.idx])),
                                   sim.p.dt),
                        sim.u[sim.idx])
            /\ UNCHANGED sim
    /\ UNCHANGED <<pool, fiVars>>

\* The rest of the pass, once run_lifsoma has returned (lines 359-365).
sim_lif_fi_check ==
    /\ sim.pc = "loop" /\ sim.fn = "sim_lif_fi" /\ pc = "done"
    /\ sim' = SimLifStore(sim, sim.idx, SteadyCheck(sim.p, spiketimes[1], FALSE))
    /\ SomaRelease
    /\ UNCHANGED <<pool, fiVars>>

\* Line 366.
sim_lif_fi_return ==
    /\ sim.pc = "loop" /\ sim.fn = "sim_lif_fi" /\ sim.idx > Len(sim.u)
    /\ sim' = [sim EXCEPT !.pc = "returned"]
    /\ UNCHANGED <<pool, somaVars, fiVars>>

\* Line 420: the condition for mapping in the calling process.
Sequential(s) ==
    \/ s.max_proc = NoneVal
    \/ s.max_proc[1] = 0
    \/ Len(s.u) = 1

\* sim_alif_fi is called.  The worker (_sim_alif_fi_worker_unwrapped, lines
\* 373-387) is a function of its arguments: what a task ends in is fixed by
\* the task alone.  It is worked out for each task before the tasks are
\* mapped, the worker's call of num_alif_fi running on frame, and it takes
\* effect when the task is run.
sim_alif_fi_enter ==
    /\ sim.pc = "call" /\ sim.fn = "sim_alif_fi"
    /\ sim' = [sim EXCEPT !.pc = "args", !.idx = 1]
    /\ UNCHANGED <<pool, somaVars, fiVars>>

\* The worker calls num_alif_fi for the next level (lines 373-374).
sim_alif_fi_worker_call ==
    /\ sim.pc = "args" /\ sim.idx <= Len(sim.u)
    /\ frame = NoFrame /\ pc = "idle"
    /\ frame' = NewFrame("num_alif_fi",
                         SimAlifWorkerArg(sim.p, sim.u[sim.idx]))
    /\ UNCHANGED <<sim, pool, somaVars>>

\* The outcome of the task of the level sim.idx is known.
SimTaskDone(s, o) ==
    [s EXCEPT !.args = Append(@, [u |-> s.u[s.idx], outcome |-> o]),
              !.idx = @ + 1]

\* num_alif_fi has ended (lines 375-381): its exception leaves the worker,
\* a rate below .01 makes the worker return 0, and otherwise the worker
\* calls run_alifsoma.
sim_alif_fi_worker_run ==
    /\ sim.pc = "args" /\ frame.pc \in {"returned", "raised"} /\ pc = "idle"
    /\ IF frame.pc = "raised"
       THEN /\ sim' = SimTaskDone(sim, Outcome(frame.exc, NoneVal, NoneVal, FALSE))
            /\ UNCHANGED somaVars
       ELSE IF RLt(frame.f_ret[1], Percent)
       THEN /\ sim' = SimTaskDone(sim, Outcome("none", Zero, NoneVal, FALSE))
            /\ UNCHANGED somaVars
       ELSE /\ SomaCall("run_alifsoma", sim.p,
                        NumSamples(RAdd(RMul(R(5), sim.p.tauf),
                                        RMul(R(5), RDiv(One, frame.f_ret[1]))),
                                   sim.p.dt),
                        sim.u[sim.idx])
            /\ UNCHANGED sim
    /\ frame' = NoFrame
    /\ UNCHANGED pool

\* The rest of the worker, once run_alifsoma has returned (lines 382-387).
sim_alif_fi_worker_check ==
    /\ sim.pc = "args" /\ pc = "done"
    /\ sim' = SimTaskDone(sim, SteadyCheck(sim.p, spiketimes[1], TRUE))
    /\ SomaRelease
    /\ UNCHANGED <<pool, fiVars>>

\* Lines 413-424: the tasks are mapped here, or submitted to a new pool of
\* max_proc worker processes.
sim_alif_fi_map ==
    /\ sim.pc = "args" /\ sim.idx > Len(sim.u)
    /\ frame = NoFrame /\ pc = "idle"
    /\ sim' = [sim EXCEPT
                 !.pc = IF Sequential(sim) THEN "map" ELSE "pool_map",
                 !.idx = IF Sequential(sim) THEN 1 ELSE 0]
    /\ IF Sequential(sim)
       THEN UNCHANGED pool
       ELSE pool' = [NoPool EXCEPT
                       !.created = TRUE,
                       !.procs = 1..sim.max_proc[1],
                       !.running = [w \in 1..sim.max_proc[1] |-> 0],
                       !.taskq = [k \in 1..Len(sim.u) |-> k],
                       !.value = [k \in 1..Len(sim.u) |-> NoneVal],
                       !.number_left = Len(sim.u)]
    /\ UNCHANGED <<somaVars, fiVars>>

\* The builtin map appends the result of a task to its list, or the
\* exception of the task leaves sim_alif_fi.
SimMapStore(s, k, o) ==
    IF o.exc # "none"
    THEN [Observe(s, k, o) EXCEPT !.pc = "raised", !.exc = o.exc]
    ELSE [Observe(s, k, o) EXCEPT !.sim_f = Append(@, o.value), !.idx = k + 1]

\* Line 421: the builtin map evaluates one task after the other.
sim_alif_fi_map_step ==
    /\ sim.pc = "map" /\ sim.idx <= Len(sim.u)
    /\ sim' = SimMapStore(sim, sim.idx, sim.args[sim.idx].outcome)
    /\ UNCHANGED <<pool, somaVars, fiVars>>

\* Lines 421 and 428 on the sequential path.
sim_alif_fi_map_return ==
    /\ sim.pc = "map" /\ sim.idx > Len(sim.u)
    /\ sim' = [sim EXCEPT !.pc = "returned"]
    /\ UNCHANGED <<pool, somaVars, fiVars>>

\* A mutant of MapResultSet: results are stored in the order of completion.
MapResultSet_CompletionOrder(value, k, v) ==
    [value EXCEPT ![CHOOSE j \in 1..Len(value) :
                      /\ value[j] = NoneVal
                      /\ \A h \in 1..(j - 1) : value[h] # NoneVal] = v]

\* The pool stores the result of task k at index k (workers.map, line 424).
MapResultSet(value, k, v) == [value EXCEPT ![k] = v]

\* An idle worker process takes the next task of the queue.
pool_take(w) ==
    /\ pool.created /\ w \in pool.procs
    /\ pool.running[w] = 0 /\ pool.taskq # <<>>
    /\ pool' = [pool EXCEPT !.running[w] = Head(pool.taskq),
                            !.taskq = Tail(pool.taskq)]
    /\ UNCHANGED <<sim, somaVars, fiVars>>

\* A worker process finishes its task (_sim_alif_fi_worker, lines 369-387):
\* the result is stored, or the failure is kept for the caller of map.
pool_finish(w) ==
    /\ pool.created /\ w \in pool.procs /\ pool.running[w] # 0
    /\ LET k == pool.running[w]
           o == sim.args[k].outcome
       IN  /\ pool' = [pool EXCEPT
                         !.running[w] = 0,
                         !.done_order = Append(@, k),
                         !.number_left = IF o.exc = "none" THEN @ - 1 ELSE @,
                         !.value = IF o.exc = "none"
                                   THEN MapResultSet(@, k, o.value) ELSE @,
                         !.failed = IF o.exc # "none" /\ @ = "none"
                                    THEN o.exc ELSE @]
           /\ sim' = Observe(sim, k, o)
    /\ UNCHANGED <<somaVars, fiVars>>

\* workers.map returns the list of results (line 424).
pool_map_return ==
    /\ sim.pc = "pool_map" /\ pool.failed = "none" /\ pool.number_left = 0
    /\ sim' = [sim EXCEPT !.pc = "close", !.sim_f = pool.value]
    /\ UNCHANGED <<pool, somaVars, fiVars>>

\* workers.map re-raises the failure of a task (line 424); sim_alif_fi does
\* not catch it.
pool_map_raise ==
    /\ sim.pc = "pool_map" /\ pool.failed # "none"
    /\ sim' = [sim EXCEPT !.pc = "raised", !.exc = pool.failed]
    /\ UNCHANGED <<pool, somaVars, fiVars>>

\* workers.close() (line 425).
pool_close ==
    /\ sim.pc = "close"
    /\ pool' = [pool EXCEPT !.closed = TRUE]
    /\ sim' = [sim EXCEPT !.pc = "join"]
    /\ UNCHANGED <<somaVars, fiVars>>

\* A worker process of a closed pool exits when there is nothing to do.
pool_worker_exit(w) ==
    /\ pool.closed /\ w \in pool.procs
    /\ pool.running[w] = 0 /\ pool.taskq = <<>>
    /\ pool' = [pool EXCEPT !.procs = @ \ {w}]
    /\ UNCHANGED <<sim, somaVars, fiVars>>

\* workers.join() returns when every worker process has exited, and
\* sim_alif_fi returns the array of results (lines 426-428).
pool_join_return ==
    /\ sim.pc = "join" /\ pool.procs = {}
    /\ sim' = [sim EXCEPT !.pc = "returned"]
    /\ UNCHANGED <<pool, somaVars, fiVars>>

Workers == 1..2

SimNext ==
    \/ Prologue
    \/ run_lifsoma_step
    \/ run_alifsoma_step
    \/ Return
    \/ sim_lif_fi_enter
    \/ sim_lif_fi_run
    \/ sim_lif_fi_check
    \/ sim_lif_fi_return
    \/ sim_alif_fi_enter
    \/ sim_alif_fi_worker_call
    \/ num_alif_fi_enter
    \/ num_alif_fi_iter
    \/ num_alif_fi_exit
    \/ sim_alif_fi_worker_run
    \/ sim_alif_fi_worker_check
    \/ sim_alif_fi_map
    \/ sim_alif_fi_map_step
    \/ sim_alif_fi_map_return
    \/ \E w \in Workers : pool_take(w)
    \/ \E w \in Workers : pool_finish(w)
    \/ pool_map_return
    \/ pool_map_raise
    \/ pool_close
    \/ \E w \in Workers : pool_worker_exit(w)
    \/ pool_join_return

(***************************************************************************)
(* Specifications: one per component, the other components at rest         *)
(***************************************************************************)
vars == <<somaVars, fiVars, simVars>>

SomaIdle ==
    /\ pc = "idle" /\ fn = "none"
    /\ u_shape = <<>> /\ u_data = <<>> /\ u_shape0 = <<>> /\ u_data0 = <<>>
    /\ par = <<>> /\ nneurons = 0 /\ nsteps = 0 /\ i = 0
    /\ state = <<>> /\ fstate = <<>>
    /\ refractory_time = <<>> /\ spiketimes = <<>> /\ last = <<>>

FiIdle == frame = NoFrame

SimIdle == sim = <<>> /\ pool = NoPool

\* The integrators.
Init == SomaInit /\ FiIdle /\ SimIdle
Next == SomaNext
Spec == Init /\ [][Next]_vars

\* th_lif_fi and the bisection solvers.
InitFi == FiInit /\ SomaIdle /\ SimIdle
NextFi == FiNext
SpecFi == InitFi /\ [][NextFi]_vars

\* The empirical evaluators.
InitSim == SimInit /\ SomaIdle /\ FiIdle
NextSim == SimNext
SpecSim == InitSim /\ [][NextSim]_vars

\* run_alifsoma without feedback (af = 0), in rounded arithmetic and with
\* every value the build can give its decay.  In the specification of the
\* integrators above the arithmetic is exact and the decay is that of
\* np.exp: a decay one unit beside it is the decay of another tau.
Af0Pars ==
    UNION {{[p EXCEPT !.decay = d] : d \in Expm1Plus1(p.dt, p.tau)} :
             p \in {MkPar(tp[1], tp[2], tm, 0, tf, Zero, FxS) :
                       tp \in TimePairs, tm \in TauMs, tf \in TauFs}}
InitAf0 ==
    /\ pc = "call" /\ fn = "run_alifsoma"
    /\ \E a \in CallerArrays :
        /\ u_shape = a.shape /\ u_shape0 = a.shape
        /\ u_data = a.data /\ u_data0 = a.data
    /\ par \in Af0Pars
    /\ nneurons = 0 /\ nsteps = 0 /\ i = 0
    /\ state = <<>> /\ fstate = <<>>
    /\ refractory_time = <<>> /\ spiketimes = <<>>
    /\ last = <<>>
    /\ FiIdle /\ SimIdle
NextAf0 == Prologue \/ run_alifsoma_step \/ Return
SpecAf0 == InitAf0 /\ [][NextAf0]_vars

(***************************************************************************)
(* Properties of the integrators                                           *)
(***************************************************************************)
Spiking == {"run_lifsoma", "run_alifsoma"}
Running == pc \in {"loop", "done"}
\* Start time, in the code's convention, of the step executed last.
StepTime == RMul(R(i - 1), par.dt)
LastSpike(j) == spiketimes[j][Len(spiketimes[j])]

\* C4: during a run of run_lifsoma or run_alifsoma each neuron's spike record
\* only grows by appending, and every appended spike time is strictly
\* greater than the one appended before it.
C4_SpikeTimesIncreasing ==
    [][(pc = "loop" /\ fn \in Spiking) =>
        \A j \in 1..nneurons :
            \/ spiketimes'[j] = spiketimes[j]
            \/ /\ Len(spiketimes'[j]) = Len(spiketimes[j]) + 1
               /\ SubSeq(spiketimes'[j], 1, Len(spiketimes[j])) = spiketimes[j]
               /\ Len(spiketimes[j]) > 0 =>
                    RLt(LastSpike(j), spiketimes'[j][Len(spiketimes'[j])])]_vars

C4_Witness ==
    /\ pc = "loop" /\ fn \in Spiking
    /\ \E j \in 1..nneurons : Len(spiketimes[j]) >= 3

\* C5 as stated: the remaining refractory time of every neuron is never
\* negative, and is 0 when the neuron is not refractory (its last spike time
\* plus tref is not after the current step).
Refractory(j) ==
    /\ spiketimes[j] # <<>>
    /\ RLt(StepTime, RAdd(LastSpike(j), par.tref))

C5_RefractoryNonNegative ==
    (Running /\ fn \in Spiking) =>
        \A j \in 1..nneurons :
            /\ RLe(Zero, refractory_time[j])
            /\ ~Refractory(j) => refractory_time[j] = Zero

\* C5 amended: the refractory time of a neuron is the signed time from the
\* start of the step executed last to the end of its refractory window
\* (last spike time + tref; time 0 for a neuron that has not spiked).  It is
\* positive exactly while the neuron is refractory and otherwise zero or
\* negative, falling by dt with every step.
C5_RefractorySigned ==
    (Running /\ fn \in Spiking) =>
        \A j \in 1..nneurons :
            /\ refractory_time[j] =
                 RSub(IF spiketimes[j] = <<>> THEN Zero
                      ELSE RAdd(LastSpike(j), par.tref), StepTime)
            /\ Refractory(j) <=> RLt(Zero, refractory_time[j])

C5_Witness ==
    /\ pc = "loop" /\ fn \in Spiking
    /\ \E j \in 1..nneurons :
         spiketimes[j] # <<>> /\ RLt(refractory_time[j], Zero)

\* C6: when an integrator has returned, the caller's array has the shape and
\* the values it had when it was passed.
C6_CallerArrayUnchanged ==
    pc = "done" => (u_shape = u_shape0 /\ u_data = u_data0)

\* The fractional overshoot of the step executed last, from the gated
\* voltage and the voltage change before gating.
Overshoot(j) == RDiv(RSub(last[j].Vnew, par.xt), last[j].dV)

\* C10 as stated: on a spike the voltage is set to 0 and the refractory time
\* to tref + dt * overshoot.
C10_ResetElapsedPastCrossing ==
    (pc = "loop" /\ fn \in Spiking) =>
        \A j \in 1..nneurons :
            last[j].spiked =>
                /\ state[i][j] = Zero
                /\ refractory_time[j] =
                     RAdd(par.tref, RMul(par.dt, Overshoot(j)))

\* C10 amended: on a spike the voltage is set to 0 and the refractory time to
\* tref + dt * (1 - overshoot), the interpolated crossing time measured from
\* the start of the step.
C10_ResetCrossingTime ==
    (pc = "loop" /\ fn \in Spiking) =>
        \A j \in 1..nneurons :
            last[j].spiked =>
                /\ state[i][j] = Zero
                /\ refractory_time[j] =
                     RAdd(par.tref, RMul(par.dt, RSub(One, Overshoot(j))))

C10_Witness ==
    /\ pc = "loop" /\ fn \in Spiking
    /\ \E j \in 1..nneurons :
         last[j].spiked /\ Overshoot(j) # <<1, 2>> /\ RLt(Zero, last[j].dV)

\* C11: any two consecutive recorded spike times of a neuron differ by at
\* least the refractory period tref, in run_lifsoma and in run_alifsoma,
\* also when the second spike falls in a step in which the voltage was only
\* partially released.
C11_SpikesApartByTref ==
    (Running /\ fn \in Spiking) =>
        \A j \in 1..nneurons :
            \A k \in 1..(Len(spiketimes[j]) - 1) :
                RLe(RAdd(spiketimes[j][k], par.tref), spiketimes[j][k + 1])

\* The step executed last released the voltage of neuron j partially: the
\* gated voltage is neither 0 nor the voltage before gating, which is the
\* previous voltage plus dV.
PartialRelease(j) ==
    /\ last[j].Vnew # Zero
    /\ last[j].Vnew # RAdd(state[i - 1][j], last[j].dV)

\* A neuron with tref > 0 spikes for the second time or later in a step of
\* partial release.
C11_Witness ==
    /\ pc = "loop" /\ fn \in Spiking /\ i >= 2 /\ RLt(Zero, par.tref)
    /\ \E j \in 1..nneurons :
         last[j].spiked /\ Len(spiketimes[j]) >= 2 /\ PartialRelease(j)

\* C12: a neuron flagged as spiking by the step executed last has a voltage
\* change before gating dV > 0, its fractional overshoot is in (0, 1], and
\* the recorded spike time lies inside the step: at or after its start and
\* before its end.
C12_FlaggedHasPositiveChange ==
    (pc = "loop" /\ fn \in Spiking) =>
        \A j \in 1..nneurons :
            last[j].spiked =>
                /\ RLt(Zero, last[j].dV)
                /\ RLt(Zero, Overshoot(j)) /\ RLe(Overshoot(j), One)
                /\ RLe(StepTime, LastSpike(j))
                /\ RLt(LastSpike(j), RAdd(StepTime, par.dt))

\* A flagged neuron whose voltage was gated and whose previous voltage was
\* not 0: dV differs from the voltage before gating and from the gated one.
C12_Witness ==
    /\ pc = "loop" /\ fn \in Spiking /\ i >= 2
    /\ \E j, h \in 1..nneurons :
         /\ last[j].spiked /\ PartialRelease(j)
         /\ last[h].spiked /\ state[i - 1][h] # Zero

\* The parameters run_lifsoma works with for the dt, tau, tref and xt of
\* the running call: its decay is np.exp(-dt/tau) (line 461).
LifPar == [par EXCEPT !.decay = Decay(par.dt, par.tau)]

\* C15: every step of run_alifsoma with af = 0 leaves, for every neuron, the
\* membrane state, the refractory time and the spike record that the step
\* of run_lifsoma leaves from the same state on the same input; both start
\* from the same state, so the two runs are the same.
C15_Af0StepIsLifStep ==
    [][(pc = "loop" /\ fn = "run_alifsoma" /\ par.af = Zero /\ i < nsteps) =>
        \A j \in 1..nneurons :
            LET l == LifNeuronStep(LifPar, state[i][j], refractory_time[j],
                                   u_data[i + 1][j], i)
            IN  /\ state'[i + 1][j] = l.V
                /\ refractory_time'[j] = l.r
                /\ spiketimes'[j] = IF l.spiked
                                    THEN Append(spiketimes[j], l.spk_t)
                                    ELSE spiketimes[j]]_vars

(***************************************************************************)
(* Properties of th_lif_fi and the bisection solvers                       *)
(***************************************************************************)
Solvers == {"num_alif_fi", "num_alif_fi_mu_apx"}
Ended == frame.pc \in {"returned", "raised"}
AllZero(f_ret) == \A k \in 1..Len(f_ret) : f_ret[k] = Zero

\* A call of a solver whose arguments the solver accepts: a positive
\* feedback gain for num_alif_fi_mu_apx, an upper rate that exists for
\* num_alif_fi, and at least one pass of the search.
SolverArgsAccepted ==
    /\ frame.arg.max_iter >= 1
    /\ frame.fn = "num_alif_fi_mu_apx" => RLt(Zero, frame.arg.af)
    /\ frame.fn = "num_alif_fi" =>
          (frame.arg.max_f # NoneVal \/ RLt(Zero, frame.arg.tref))

\* C1: a call of num_alif_fi or num_alif_fi_mu_apx in which every element of
\* the batch is at or below the threshold ends by returning, and the rate it
\* returns is 0 for every element.
C1_SubthresholdBatchReturnsZero ==
    (/\ frame.fn \in Solvers /\ Ended /\ SolverArgsAccepted
     /\ \A k \in 1..Len(frame.arg.u) : RLe(frame.arg.u[k], frame.arg.xt))
        => (frame.pc = "returned" /\ AllZero(frame.f_ret))

\* C7: a bisection whose loop ended because the budget max_iter was used up
\* (no pass reached the tolerance) returns, and it has reported that the
\* budget was exhausted.
C7_ExhaustedBudgetReturnsAndReports ==
    (frame.fn \in Solvers /\ Ended /\ frame.at_exit /\ ~frame.broke)
        => (/\ frame.pc = "returned"
            /\ frame.printed = <<"reached max iterations">>)

\* C8: a call of th_lif_fi with a membrane time constant <= 0 or a threshold
\* <= 0 ends by raising; it never returns a rate.
C8_DomainErrorRaised ==
    (/\ frame.fn = "th_lif_fi" /\ Ended
     /\ (RLe(frame.arg.taum, Zero) \/ RLe(frame.arg.xt, Zero)))
        => frame.pc = "raised"

\* The frame of the running call as it entered its loop: it holds the
\* initial bracket of every element.
Entered ==
    IF frame.fn = "num_alif_fi"
    THEN NumAlifFiEnter(NewFrame(frame.fn, frame.arg))
    ELSE MuApxEnter(NewFrame(frame.fn, frame.arg))
\* The bracket of a frame: tspk for num_alif_fi, f for num_alif_fi_mu_apx.
High(fr) == IF fr.fn = "num_alif_fi" THEN fr.tspk_high ELSE fr.f_high
Low(fr) == IF fr.fn = "num_alif_fi" THEN fr.tspk_low ELSE fr.f_low
Estimate(fr) == IF fr.fn = "num_alif_fi" THEN fr.tspk ELSE fr.f
Selected == {k \in 1..Len(frame.arg.u) : frame.idx[k]}
\* The passes that moved the bracket: num_alif_fi leaves the loop before
\* the update when the tolerance is reached, num_alif_fi_mu_apx after it.
Updates ==
    IF frame.fn = "num_alif_fi" /\ frame.broke THEN frame.i - 1 ELSE frame.i
InLoopOrAfter ==
    /\ frame.fn \in Solvers
    /\ frame.pc = "loop" \/ (frame.pc = "returned" /\ frame.at_exit)

\* C13: in both bisections, for every element that is solved, the bracket
\* is ordered, its width is the initial width halved once for every pass
\* that did not end the loop, and the estimate of a call that has returned
\* is the midpoint of the bracket of its last pass and lies in the initial
\* bracket: a rate in [min_f, f_high] for num_alif_fi, in [0, th_lif_fi(u)]
\* for num_alif_fi_mu_apx.
C13_BracketHalvedEstimateInside ==
    InLoopOrAfter =>
        \A k \in Selected :
            /\ RLe(Low(frame)[k], High(frame)[k])
            /\ RMul(R(2 ^ Updates), RSub(High(frame)[k], Low(frame)[k]))
                  = RSub(High(Entered)[k], Low(Entered)[k])
            /\ frame.pc = "returned" =>
                  /\ RLe(Low(Entered)[k], Estimate(frame)[k])
                  /\ RLe(Estimate(frame)[k], High(Entered)[k])
                  /\ IF Updates = frame.i
                     THEN Estimate(frame)[k] \in {Low(frame)[k], High(frame)[k]}
                     ELSE Estimate(frame)[k] =
                            RDiv(RAdd(High(frame)[k], Low(frame)[k]), R(2))
                  /\ IF frame.fn = "num_alif_fi"
                     THEN /\ RLe(frame.arg.min_f, frame.f_ret[k])
                          /\ RLe(frame.f_ret[k],
                                 IF frame.arg.max_f = NoneVal
                                 THEN RDiv(One, frame.arg.tref)
                                 ELSE frame.arg.max_f)
                     ELSE frame.f_ret[k] = frame.f[k]

\* A bisection of a batch of two solved elements has used up a budget of at
\* least two passes and has returned different estimates for them.
C13_Witness ==
    /\ InLoopOrAfter /\ frame.pc = "returned"
    /\ ~frame.broke /\ frame.i >= 2
    /\ Selected = {1, 2} /\ frame.f_ret[1] # frame.f_ret[2]

\* A whole call of a solver, as the steps of the state machine compose it:
\* the frame after the next step of fr, and the frame the call ends in.
SolverStep(fr) ==
    IF fr.pc = "call"
    THEN IF fr.fn = "num_alif_fi" THEN NumAlifFiEnter(fr) ELSE MuApxEnter(fr)
    ELSE IF ~fr.broke /\ fr.i < fr.arg.max_iter
    THEN IF fr.fn = "num_alif_fi"
         THEN NumAlifFiSettle(fr, NumAlifFiIter(fr))
         ELSE MuApxIter(fr)
    ELSE IF fr.fn = "num_alif_fi" THEN NumAlifFiExit(fr) ELSE MuApxExit(fr)
RECURSIVE SolverRun(_)
SolverRun(fr) ==
    IF fr.pc \in {"returned", "raised"} THEN fr ELSE SolverRun(SolverStep(fr))
\* The call of the running solver on the level u[k] alone.
Alone(k) ==
    SolverRun(NewFrame(frame.fn, [frame.arg EXCEPT !.u = <<frame.arg.u[k]>>]))

\* C14: when a bisection has returned the rates of a batch, the rate of
\* every level u[k] that it solved is the rate the same solver returns for
\* u[k] alone.
C14_RateIndependentOfBatch ==
    (frame.fn \in Solvers /\ frame.pc = "returned") =>
        \A k \in Selected :
            /\ Alone(k).pc = "returned"
            /\ Alone(k).f_ret[1] = frame.f_ret[k]

\* The call that has ended is the composition of its steps.
SolverRunIsCall ==
    (frame.fn \in Solvers /\ Ended) =>
        frame = SolverRun(NewFrame(frame.fn, frame.arg))

(***************************************************************************)
(* Properties of the empirical evaluators                                  *)
(***************************************************************************)
\* The levels whose run has been checked: the last two intervals are known.
Checked == {k \in 1..Len(sim.u) : sim.isi[k] # NoneVal /\ Len(sim.isi[k]) = 2}

\* C2: a level whose last two intervals changed by more than 1% (the check
\* of the code: (isi[-2] - isi[-1]) / isi[-2] > .01) is warned about and
\* nothing is raised for it, in sim_lif_fi and in sim_alif_fi; when the
\* evaluator has returned, its rate for that level is 1 / isi[-1].
C2_FailedCheckOnlyWarns ==
    \A k \in Checked :
        RLt(Percent, RelChange(sim.isi[k])) =>
            /\ k \in sim.warned
            /\ k \notin sim.asserted
            /\ sim.pc = "returned" =>
                  sim.sim_f[k] = Q(sim.p.grid, RDiv(One, sim.isi[k][2]))

\* C3: every level whose last two intervals differ by more than 1% of the
\* earlier one, shrinking or growing, is flagged by the check (a warning in
\* sim_lif_fi, a failed assertion in the worker of sim_alif_fi).
C3_EveryChangeFlagged ==
    \A k \in Checked :
        RLt(Percent, RAbs(RelChange(sim.isi[k]))) =>
            k \in (sim.warned \cup sim.asserted)

\* C9: when sim_alif_fi has returned, element k of the result is the rate
\* of the task built from u[k], whatever the order in which the tasks
\* finished; a pool was used exactly when the batch has more than one
\* element and max_proc is neither 0 nor None; and a pool that was used has
\* no task left or running and no worker process alive.
C9_ResultByIndexAfterJoin ==
    (sim.fn = "sim_alif_fi" /\ sim.pc = "returned") =>
        /\ Len(sim.sim_f) = Len(sim.u)
        /\ \A k \in 1..Len(sim.u) :
              /\ sim.args[k].u = sim.u[k]
              /\ sim.sim_f[k] = sim.args[k].outcome.value
        /\ pool.created <=> ~Sequential(sim)
        /\ pool.created =>
              /\ pool.taskq = <<>> /\ pool.number_left = 0
              /\ Len(pool.done_order) = Len(sim.u)
              /\ pool.procs = {}

\* A pooled call has returned whose tasks finished out of order and gave
\* different rates.
C9_Witness ==
    /\ sim.fn = "sim_alif_fi" /\ sim.pc = "returned" /\ pool.created
    /\ \E a, b \in 1..Len(pool.done_order) :
          /\ a < b /\ pool.done_order[a] > pool.done_order[b]
          /\ sim.sim_f[pool.done_order[a]] # sim.sim_f[pool.done_order[b]]

====
